---- MODULE Spec2Model ----
(***************************************************************************)
(* A model of rust-mcp-server: the stdio transport loop (src/server.rs),   *)
(* the protocol engine (src/mcp.rs), the tool registry and the built-in    *)
(* tools (src/tools.rs) and the process shell (src/main.rs).               *)
(*                                                                         *)
(* JSON values are tagged records: [t |-> "null"], [t |-> "str", s |-> _], *)
(* [t |-> "num", n |-> _], [t |-> "bool", b |-> _], [t |-> "obj", o |-> r] *)
(* with r a record of members, [t |-> "arr", a |-> seq].  A Rust Option is *)
(* None or the value itself; a Rust Result is Ok(v) or Err(e).             *)
(***************************************************************************)
EXTENDS Integers, Sequences, FiniteSets, TLC

VARIABLES
    server,      \* the McpServer behind the StdioServer's mutex
    pc,          \* where run() stands: "read", "write", or "exited" once main has returned
    line,        \* run()'s line buffer: the line read last
    response,    \* the Option<JsonRpcResponse> process_message returned, to be written
    stdin_log,   \* history: the lines read so far, in order
    stdout,      \* the response lines written and flushed so far, in order
    trace,       \* history: the registry operations and process launches performed
    run_result,  \* what run() returned: None while it loops, then Ok(_) or Err(_)
    exit_code    \* the process's exit code, None until main returns

vars == <<server, pc, line, response, stdin_log, stdout, trace, run_result, exit_code>>

\* ------------------------------------------------------------------ bounds

\* The number of lines read from stdin in one run.
MaxLines == 3
\* The number of register_tool calls made on a registry after ToolRegistry::new
MaxRegistrations == 2
\* The number of requests handed to an engine driven without the transport
MaxCalls == 2

\* ------------------------------------------------------------- JSON values

None == [t |-> "none"]
JNull == [t |-> "null"]
JStr(s) == [t |-> "str", s |-> s]
JNum(n) == [t |-> "num", n |-> n]
JBool(b) == [t |-> "bool", b |-> b]
JObj(o) == [t |-> "obj", o |-> o]
JArr(a) == [t |-> "arr", a |-> a]
EmptyObj == [k \in {} |-> JNull]

IsStr(v) == v.t = "str"
IsObj(v) == v.t = "obj"
Has(v, k) == IsObj(v) /\ k \in DOMAIN v.o
\* serde_json's Value::get(k): the member, or None for a non-object or no member
Get(v, k) == IF Has(v, k) THEN v.o[k] ELSE None
\* Option<&Value>::and_then(|v| v.as_str())
AsStr(v) == IF v.t = "str" THEN v ELSE None

Ok(v) == [ok |-> TRUE, v |-> v]
Err(e) == [ok |-> FALSE, e |-> e]

Range(s) == {s[i] : i \in DOMAIN s}

\* ------------------------------------------------------------------ types.rs
\* The crate's types module, modelled from its uses in mcp.rs, server.rs,
\* tools.rs and the tests, and from the specification.

\* JSON-RPC error codes (spec section 7; -32601 is asserted by test_method_not_found)
PARSE_ERROR == -32700
INVALID_REQUEST == -32600
METHOD_NOT_FOUND == -32601
INVALID_PARAMS == -32602
INTERNAL_ERROR == -32603

JsonRpcError(code) == [t |-> "error", code |-> code]
JsonRpcError_parse_error == JsonRpcError(PARSE_ERROR)
JsonRpcError_invalid_request == JsonRpcError(INVALID_REQUEST)
JsonRpcError_method_not_found == JsonRpcError(METHOD_NOT_FOUND)
JsonRpcError_internal_error == JsonRpcError(INTERNAL_ERROR)

JsonRpcResponse(jsonrpc, id, result, error) ==
    [jsonrpc |-> jsonrpc, id |-> id, result |-> result, error |-> error]

\* An Option<Value> field of a derived struct: absent or null member is None.
OptionalField(v, k) == IF Has(v, k) /\ v.o[k] # JNull THEN v.o[k] ELSE None

\* serde_json::from_str::<JsonRpcRequest>(message): a JSON object with string
\* members jsonrpc and method, and optional members id and params.
JsonRpcRequest_from_str(message) ==
    IF message.kind # "json" THEN Err("not JSON")
    ELSE IF ~IsObj(message.v) THEN Err("not an object")
    ELSE IF ~(Has(message.v, "jsonrpc") /\ IsStr(message.v.o["jsonrpc"])) THEN Err("missing field jsonrpc")
    ELSE IF ~(Has(message.v, "method") /\ IsStr(message.v.o["method"])) THEN Err("missing field method")
    ELSE Ok([jsonrpc |-> message.v.o["jsonrpc"].s,
             id |-> OptionalField(message.v, "id"),
             method |-> message.v.o["method"].s,
             params |-> OptionalField(message.v, "params")])

\* serde_json::from_value::<InitializeRequest>(params):
\* {protocolVersion, capabilities, clientInfo: {name, version}}
InitializeRequest_from_value(params) ==
    IF /\ Has(params, "protocolVersion") /\ IsStr(params.o["protocolVersion"])
       /\ Has(params, "capabilities") /\ IsObj(params.o["capabilities"])
       /\ Has(params, "clientInfo")
       /\ Has(params.o["clientInfo"], "name") /\ IsStr(params.o["clientInfo"].o["name"])
       /\ Has(params.o["clientInfo"], "version") /\ IsStr(params.o["clientInfo"].o["version"])
    THEN Ok([protocol_version |-> params.o["protocolVersion"].s,
             client_info |-> [name |-> params.o["clientInfo"].o["name"].s,
                              version |-> params.o["clientInfo"].o["version"].s]])
    ELSE Err("invalid InitializeRequest")

\* serde_json::from_value::<CallToolRequest>(params): {name, arguments?}
CallToolRequest_from_value(params) ==
    IF Has(params, "name") /\ IsStr(params.o["name"])
    THEN Ok([name |-> params.o["name"].s, arguments |-> OptionalField(params, "arguments")])
    ELSE Err("invalid CallToolRequest")

\* ToolContent::Text { text }: the text is kept as the pieces format! joins
Text(pieces) == [type |-> "text", text |-> pieces]
CallToolResponse(content, is_error) == [content |-> content, is_error |-> is_error]

\* serde_json::to_value(CallToolResponse)
CallToolResponse_to_value(r) ==
    IF r.is_error = None
    THEN JObj([content |-> JArr(r.content)])
    ELSE JObj([content |-> JArr(r.content), isError |-> r.is_error])

\* ----------------------------------------------------------------- tools.rs

\* What the operating system answers to the built-in tools' calls in one step:
\* read_dir: "entries", "empty" or "err"; metadata: "ok" or "err"; len: the file's
\* length; read: read_to_string "ok" or "err"; spawn: Command::output "ok" or "err";
\* success: the exit status; stderr: whether the command wrote to stderr.
Env ==
    { [read_dir |-> "entries", metadata |-> "ok", len |-> 10, read |-> "ok",
       spawn |-> "ok", success |-> TRUE, stderr |-> FALSE],
      [read_dir |-> "empty", metadata |-> "ok", len |-> 2000000, read |-> "err",
       spawn |-> "ok", success |-> FALSE, stderr |-> TRUE],
      [read_dir |-> "err", metadata |-> "err", len |-> 0, read |-> "err",
       spawn |-> "err", success |-> FALSE, stderr |-> FALSE] }

\* A handler's call: its Result<CallToolResponse> and the processes it started.
Called(res, spawned) == [res |-> res, spawned |-> spawned]

\* EchoTool::call reading its text from the key "message"
EchoTool_call_reads_message(args, env) ==
    LET text == IF AsStr(Get(args, "message")) # None THEN Get(args, "message").s
                ELSE "No text provided"
    IN  Called(Ok(CallToolResponse(<<Text(<<"Echo: ", text>>)>>, None)), <<>>)

EchoTool_call(args, env) ==
    LET text == IF AsStr(Get(args, "text")) # None THEN Get(args, "text").s
                ELSE "No text provided"
    IN  Called(Ok(CallToolResponse(<<Text(<<"Echo: ", text>>)>>, None)), <<>>)

SystemInfoTool_call(args, env) ==
    Called(Ok(CallToolResponse(
        <<Text(<<"System Information:\n- OS: ", "<os>", "\n- Architecture: ", "<arch>",
                 "\n- Hostname: ", "<hostname>">>)>>, None)), <<>>)

ListFilesTool_call(args, env) ==
    LET path == IF AsStr(Get(args, "path")) # None THEN Get(args, "path").s ELSE "."
    IN  IF env.read_dir = "err"
        THEN Called(Ok(CallToolResponse(
                 <<Text(<<"Error listing directory: ", "<io error>">>)>>, JBool(TRUE))), <<>>)
        ELSE IF env.read_dir = "empty"
        THEN Called(Ok(CallToolResponse(<<Text(<<"Directory is empty">>)>>, None)), <<>>)
        ELSE Called(Ok(CallToolResponse(
                 <<Text(<<"Files in ", path, ":\n", "<entries>">>)>>, None)), <<>>)

DEFAULT_MAX_SIZE == 1048576

ReadFileTool_call(args, env) ==
    IF AsStr(Get(args, "path")) = None
    THEN Called(Err("Path is required"), <<>>)
    ELSE
    LET path == Get(args, "path").s
        max_size == IF Get(args, "max_size").t = "num" /\ Get(args, "max_size").n >= 0
                    THEN Get(args, "max_size").n ELSE DEFAULT_MAX_SIZE
    IN  IF env.metadata = "err"
        THEN Called(Ok(CallToolResponse(
                 <<Text(<<"Error accessing file: ", "<io error>">>)>>, JBool(TRUE))), <<>>)
        ELSE IF env.len > max_size
        THEN Called(Ok(CallToolResponse(
                 <<Text(<<"File is too large (", "<len>", " bytes, max: ", "<max_size>",
                          " bytes)">>)>>, JBool(TRUE))), <<>>)
        ELSE IF env.read = "err"
        THEN Called(Ok(CallToolResponse(
                 <<Text(<<"Error reading file: ", "<io error>">>)>>, JBool(TRUE))), <<>>)
        ELSE Called(Ok(CallToolResponse(
                 <<Text(<<"Contents of ", path, ":\n", "<content>">>)>>, None)), <<>>)

allowed_commands == <<"echo", "date", "whoami", "pwd", "ls", "cat", "head", "tail", "wc">>

\* ExecuteCommandTool::call running the command before it looks it up in the
\* allow-list, and reporting a disallowed command afterwards
ExecuteCommandTool_call_checks_late(args, env) ==
    IF AsStr(Get(args, "command")) = None
    THEN Called(Err("Command is required"), <<>>)
    ELSE
    LET command == Get(args, "command").s
    IN  IF command \notin Range(allowed_commands)
        THEN Called(Ok(CallToolResponse(
                 <<Text(<<"Command '", command, "' is not allowed. Allowed commands: ">>
                        \o allowed_commands)>>, JBool(TRUE))), <<command>>)
        ELSE IF env.spawn = "err"
        THEN Called(Ok(CallToolResponse(
                 <<Text(<<"Error executing command: ", "<io error>">>)>>, JBool(TRUE))),
                 <<command>>)
        ELSE Called(Ok(CallToolResponse(
                 <<Text(IF env.stderr
                        THEN <<"Command: ", command, "\nSTDOUT:\n", "<stdout>",
                               "\nSTDERR:\n", "<stderr>">>
                        ELSE <<"Command: ", command, "\nOutput:\n", "<stdout>">>)>>,
                 IF env.success THEN None ELSE JBool(TRUE))), <<command>>)

ExecuteCommandTool_call(args, env) ==
    IF AsStr(Get(args, "command")) = None
    THEN Called(Err("Command is required"), <<>>)
    ELSE
    LET command == Get(args, "command").s
    IN  IF command \notin Range(allowed_commands)
        THEN Called(Ok(CallToolResponse(
                 <<Text(<<"Command '", command, "' is not allowed. Allowed commands: ">>
                        \o allowed_commands)>>, JBool(TRUE))), <<>>)
        ELSE IF env.spawn = "err"
        THEN Called(Ok(CallToolResponse(
                 <<Text(<<"Error executing command: ", "<io error>">>)>>, JBool(TRUE))),
                 <<command>>)
        ELSE Called(Ok(CallToolResponse(
                 <<Text(IF env.stderr
                        THEN <<"Command: ", command, "\nSTDOUT:\n", "<stdout>",
                               "\nSTDERR:\n", "<stderr>">>
                        ELSE <<"Command: ", command, "\nOutput:\n", "<stdout>">>)>>,
                 IF env.success THEN None ELSE JBool(TRUE))), <<command>>)

\* dyn ToolHandler::call, by the handler stored under the name
ToolHandler_call(handler, args, env) ==
    CASE handler = "EchoTool" -> EchoTool_call(args, env)
      [] handler = "SystemInfoTool" -> SystemInfoTool_call(args, env)
      [] handler = "ListFilesTool" -> ListFilesTool_call(args, env)
      [] handler = "ReadFileTool" -> ReadFileTool_call(args, env)
      [] handler = "ExecuteCommandTool" -> ExecuteCommandTool_call(args, env)

ToolHandler_description(handler) ==
    CASE handler = "EchoTool" -> "Echo back the provided text"
      [] handler = "SystemInfoTool" -> "Get basic system information"
      [] handler = "ListFilesTool" -> "List files in a directory"
      [] handler = "ReadFileTool" -> "Read the contents of a file"
      [] handler = "ExecuteCommandTool" -> "Execute a safe system command (restricted for security)"

\* HashMap::insert: the handler stored under the name, replacing any earlier one
register_tool(tools, name, handler) ==
    [n \in DOMAIN tools \cup {name} |-> IF n = name THEN handler ELSE tools[n]]

\* ToolRegistry::new registering ReadFileTool under the name of ListFilesTool
ToolRegistry_new_reuses_name ==
    register_tool(register_tool(register_tool(register_tool(register_tool(
        [n \in {} |-> "none"],
        "echo", "EchoTool"),
        "get_system_info", "SystemInfoTool"),
        "list_files", "ListFilesTool"),
        "list_files", "ReadFileTool"),
        "execute_command", "ExecuteCommandTool")

ToolRegistry_new ==
    register_tool(register_tool(register_tool(register_tool(register_tool(
        [n \in {} |-> "none"],
        "echo", "EchoTool"),
        "get_system_info", "SystemInfoTool"),
        "list_files", "ListFilesTool"),
        "read_file", "ReadFileTool"),
        "execute_command", "ExecuteCommandTool")

\* The Vec<Tool> of the map's entries; a HashMap iterates in no specified order,
\* so the model keeps the descriptors as a set, one per key.
list_tools(tools) ==
    {[name |-> n, description |-> ToolHandler_description(tools[n])] : n \in DOMAIN tools}

\* call_tool returning an Err for a name that has no handler
call_tool_unknown_fails(tools, request, env) ==
    IF request.name \in DOMAIN tools
    THEN ToolHandler_call(tools[request.name],
                          IF request.arguments = None THEN JObj(EmptyObj) ELSE request.arguments,
                          env)
    ELSE Called(Err("Tool not found"), <<>>)

call_tool(tools, request, env) ==
    IF request.name \in DOMAIN tools
    THEN ToolHandler_call(tools[request.name],
                          IF request.arguments = None THEN JObj(EmptyObj) ELSE request.arguments,
                          env)
    ELSE Called(Ok(CallToolResponse(
             <<Text(<<"Tool '", request.name, "' not found">>)>>, JBool(TRUE))), <<>>)

\* ------------------------------------------------------------------- mcp.rs

PROTOCOL_VERSION == "2024-11-05"

McpServer_new(name, version) ==
    [name |-> name, version |-> version, protocol_version |-> PROTOCOL_VERSION,
     initialized |-> FALSE, tool_registry |-> ToolRegistry_new]

\* A handler's outcome: its Result<Value>, the server after it, and the registry
\* operations and process launches it performed.
Handled(result, self, ops) == [result |-> result, self |-> self, ops |-> ops]
Op(op, arg) == [op |-> op, arg |-> arg]

\* serde_json::to_value(InitializeResponse)
InitializeResponse_to_value(self) ==
    JObj([protocolVersion |-> JStr(self.protocol_version),
          capabilities |-> JObj([tools |-> JObj([listChanged |-> JBool(FALSE)])]),
          serverInfo |-> JObj([name |-> JStr(self.name), version |-> JStr(self.version)])])

\* handle_initialize refusing a second initialize
handle_initialize_once(self, params) ==
    IF params = None
    THEN Handled(Err("Initialize request requires parameters"), self, <<>>)
    ELSE IF ~InitializeRequest_from_value(params).ok
    THEN Handled(Err(InitializeRequest_from_value(params).e), self, <<>>)
    ELSE IF self.initialized
    THEN Handled(Err("Already initialized"), self, <<>>)
    ELSE LET self2 == [self EXCEPT !.initialized = TRUE]
         IN  Handled(Ok(InitializeResponse_to_value(self2)), self2, <<>>)

\* handle_initialize storing whether the params decoded, so that a failed
\* initialize clears the flag
handle_initialize_stores_outcome(self, params) ==
    IF params = None
    THEN Handled(Err("Initialize request requires parameters"),
                 [self EXCEPT !.initialized = FALSE], <<>>)
    ELSE IF ~InitializeRequest_from_value(params).ok
    THEN Handled(Err(InitializeRequest_from_value(params).e),
                 [self EXCEPT !.initialized = FALSE], <<>>)
    ELSE LET self2 == [self EXCEPT !.initialized = TRUE]
         IN  Handled(Ok(InitializeResponse_to_value(self2)), self2, <<>>)

\* handle_initialize answering with what the client sent: the protocol version
\* it asked for and its own name and version
handle_initialize_echoes_client(self, params) ==
    IF params = None
    THEN Handled(Err("Initialize request requires parameters"), self, <<>>)
    ELSE IF ~InitializeRequest_from_value(params).ok
    THEN Handled(Err(InitializeRequest_from_value(params).e), self, <<>>)
    ELSE LET self2 == [self EXCEPT !.initialized = TRUE]
             request == InitializeRequest_from_value(params).v
         IN  Handled(Ok(InitializeResponse_to_value(
                            [self2 EXCEPT !.protocol_version = request.protocol_version,
                                          !.name = request.client_info.name,
                                          !.version = request.client_info.version])),
                     self2, <<>>)

handle_initialize(self, params) ==
    IF params = None
    THEN Handled(Err("Initialize request requires parameters"), self, <<>>)
    ELSE IF ~InitializeRequest_from_value(params).ok
    THEN Handled(Err(InitializeRequest_from_value(params).e), self, <<>>)
    ELSE LET self2 == [self EXCEPT !.initialized = TRUE]
         IN  Handled(Ok(InitializeResponse_to_value(self2)), self2, <<>>)

\* handle_initialized taking the client's notification as the end of the
\* handshake and setting the flag itself
handle_initialized_sets_flag(self) ==
    Handled(Ok(JNull), [self EXCEPT !.initialized = TRUE], <<>>)

handle_initialized(self) == Handled(Ok(JNull), self, <<>>)

\* handle_list_tools without the check of the lifecycle flag
handle_list_tools_ungated(self) ==
    Handled(Ok(JObj([tools |-> [t |-> "vec", a |-> list_tools(self.tool_registry)]])), self,
            <<Op("list_tools", "")>>)

handle_list_tools(self) ==
    IF ~self.initialized
    THEN Handled(Err("Server not initialized"), self, <<>>)
    ELSE Handled(Ok(JObj([tools |-> [t |-> "vec", a |-> list_tools(self.tool_registry)]])), self,
                 <<Op("list_tools", "")>>)

handle_call_tool(self, params, env) ==
    IF ~self.initialized
    THEN Handled(Err("Server not initialized"), self, <<>>)
    ELSE IF params = None
    THEN Handled(Err("Tool call request requires parameters"), self, <<>>)
    ELSE IF ~CallToolRequest_from_value(params).ok
    THEN Handled(Err(CallToolRequest_from_value(params).e), self, <<>>)
    ELSE LET request == CallToolRequest_from_value(params).v
             called == call_tool(self.tool_registry, request, env)
             ops == <<Op("call_tool", request.name)>>
                    \o [i \in DOMAIN called.spawned |-> Op("spawn", called.spawned[i])]
         IN  IF called.res.ok
             THEN Handled(Ok(CallToolResponse_to_value(called.res.v)), self, ops)
             ELSE Handled(Err(called.res.e), self, ops)

handle_ping(self) == Handled(Ok(JObj([pong |-> JBool(TRUE)])), self, <<>>)

handle_list_resources(self) == Handled(Ok(JObj([resources |-> JArr(<<>>)])), self, <<>>)

handle_list_prompts(self) == Handled(Ok(JObj([prompts |-> JArr(<<>>)])), self, <<>>)

Methods ==
    {"initialize", "initialized", "tools/list", "tools/call", "resources/list",
     "prompts/list", "ping"}

\* The match on request.method; only defined for the seven methods of Methods.
dispatch(self, request, env) ==
    CASE request.method = "initialize" -> handle_initialize(self, request.params)
      [] request.method = "initialized" -> handle_initialized(self)
      [] request.method = "tools/list" -> handle_list_tools(self)
      [] request.method = "tools/call" -> handle_call_tool(self, request.params, env)
      [] request.method = "resources/list" -> handle_list_resources(self)
      [] request.method = "prompts/list" -> handle_list_prompts(self)
      [] request.method = "ping" -> handle_ping(self)

\* handle_request answering an unknown method with an internal error
handle_request_unknown_internal(self, request, env) ==
    IF request.method \notin Methods
    THEN [ret |-> Ok(JsonRpcResponse("2.0", request.id, None, JsonRpcError_internal_error)),
          self |-> self, ops |-> <<>>]
    ELSE LET h == dispatch(self, request, env)
         IN  IF h.result.ok
             THEN [ret |-> Ok(JsonRpcResponse("2.0", request.id, h.result.v, None)),
                   self |-> h.self, ops |-> h.ops]
             ELSE [ret |-> Ok(JsonRpcResponse("2.0", request.id, None, JsonRpcError_internal_error)),
                   self |-> h.self, ops |-> h.ops]

\* handle_request leaving a null result next to the error of a failed handler
handle_request_result_and_error(self, request, env) ==
    IF request.method \notin Methods
    THEN [ret |-> Ok(JsonRpcResponse("2.0", request.id, None, JsonRpcError_method_not_found)),
          self |-> self, ops |-> <<>>]
    ELSE LET h == dispatch(self, request, env)
         IN  IF h.result.ok
             THEN [ret |-> Ok(JsonRpcResponse("2.0", request.id, h.result.v, None)),
                   self |-> h.self, ops |-> h.ops]
             ELSE [ret |-> Ok(JsonRpcResponse("2.0", request.id, JNull, JsonRpcError_internal_error)),
                   self |-> h.self, ops |-> h.ops]

\* handle_request with the handler-error response built without the request's id
handle_request_drops_id(self, request, env) ==
    IF request.method \notin Methods
    THEN [ret |-> Ok(JsonRpcResponse("2.0", request.id, None, JsonRpcError_method_not_found)),
          self |-> self, ops |-> <<>>]
    ELSE LET h == dispatch(self, request, env)
         IN  IF h.result.ok
             THEN [ret |-> Ok(JsonRpcResponse("2.0", request.id, h.result.v, None)),
                   self |-> h.self, ops |-> h.ops]
             ELSE [ret |-> Ok(JsonRpcResponse("2.0", None, None, JsonRpcError_internal_error)),
                   self |-> h.self, ops |-> h.ops]

\* handle_request passing a handler's Err on with `?` instead of answering it
handle_request_propagates_failure(self, request, env) ==
    IF request.method \notin Methods
    THEN [ret |-> Ok(JsonRpcResponse("2.0", request.id, None, JsonRpcError_method_not_found)),
          self |-> self, ops |-> <<>>]
    ELSE LET h == dispatch(self, request, env)
         IN  IF h.result.ok
             THEN [ret |-> Ok(JsonRpcResponse("2.0", request.id, h.result.v, None)),
                   self |-> h.self, ops |-> h.ops]
             ELSE [ret |-> Err(h.result.e), self |-> h.self, ops |-> h.ops]

\* handle_request: its return value ret (a Result whose Ok holds the response),
\* the server after it and the operations performed.
handle_request(self, request, env) ==
    IF request.method \notin Methods
    THEN [ret |-> Ok(JsonRpcResponse("2.0", request.id, None, JsonRpcError_method_not_found)),
          self |-> self, ops |-> <<>>]
    ELSE LET h == dispatch(self, request, env)
         IN  IF h.result.ok
             THEN [ret |-> Ok(JsonRpcResponse("2.0", request.id, h.result.v, None)),
                   self |-> h.self, ops |-> h.ops]
             ELSE [ret |-> Ok(JsonRpcResponse("2.0", request.id, None, JsonRpcError_internal_error)),
                   self |-> h.self, ops |-> h.ops]

\* ---------------------------------------------------------------- server.rs

\* impl Clone for McpServer: the fields copied, the registry built anew
McpServer_clone(self) ==
    [name |-> self.name, version |-> self.version,
     protocol_version |-> self.protocol_version, initialized |-> self.initialized,
     tool_registry |-> ToolRegistry_new]

\* StdioServer::new: the server the mutex holds
StdioServer_new(mcp_server) == McpServer_clone(mcp_server)

\* The line stripped of its line terminator only, not of other white space
trimmed_is_empty_newline_only(l) == l.kind \in {"empty", "newline"}

\* str::trim of the line read: TRUE when nothing is left
trimmed_is_empty(l) == l.kind \in {"empty", "newline", "spaces"}

\* process_message answering a wrong version with the request's own version
process_message_echoes_version(self, message, env) ==
    LET parsed == JsonRpcRequest_from_str(message)
    IN  IF ~parsed.ok
        THEN [out |-> JsonRpcResponse("2.0", None, None, JsonRpcError_parse_error),
              self |-> self, ops |-> <<>>]
        ELSE IF parsed.v.jsonrpc # "2.0"
        THEN [out |-> JsonRpcResponse(parsed.v.jsonrpc, parsed.v.id, None,
                                      JsonRpcError_invalid_request),
              self |-> self, ops |-> <<>>]
        ELSE LET h == handle_request(self, parsed.v, env)
             IN  IF h.ret.ok
                 THEN [out |-> h.ret.v, self |-> h.self, ops |-> h.ops]
                 ELSE [out |-> JsonRpcResponse("2.0", None, None, JsonRpcError_internal_error),
                       self |-> h.self, ops |-> h.ops]

\* process_message logging an undecodable message without answering it
process_message_drops_undecodable(self, message, env) ==
    LET parsed == JsonRpcRequest_from_str(message)
    IN  IF ~parsed.ok
        THEN [out |-> None, self |-> self, ops |-> <<>>]
        ELSE IF parsed.v.jsonrpc # "2.0"
        THEN [out |-> JsonRpcResponse("2.0", parsed.v.id, None, JsonRpcError_invalid_request),
              self |-> self, ops |-> <<>>]
        ELSE LET h == handle_request(self, parsed.v, env)
             IN  IF h.ret.ok
                 THEN [out |-> h.ret.v, self |-> h.self, ops |-> h.ops]
                 ELSE [out |-> JsonRpcResponse("2.0", None, None, JsonRpcError_internal_error),
                       self |-> h.self, ops |-> h.ops]

\* process_message handing the request to the engine before it looks at the
\* version, and replacing the engine's answer afterwards
process_message_checks_version_late(self, message, env) ==
    LET parsed == JsonRpcRequest_from_str(message)
    IN  IF ~parsed.ok
        THEN [out |-> JsonRpcResponse("2.0", None, None, JsonRpcError_parse_error),
              self |-> self, ops |-> <<>>]
        ELSE LET h == handle_request(self, parsed.v, env)
             IN  IF parsed.v.jsonrpc # "2.0"
                 THEN [out |-> JsonRpcResponse("2.0", parsed.v.id, None,
                                               JsonRpcError_invalid_request),
                       self |-> h.self, ops |-> h.ops]
                 ELSE IF h.ret.ok
                 THEN [out |-> h.ret.v, self |-> h.self, ops |-> h.ops]
                 ELSE [out |-> JsonRpcResponse("2.0", None, None, JsonRpcError_internal_error),
                       self |-> h.self, ops |-> h.ops]

\* process_message: the Option<JsonRpcResponse> it returns (out), the server
\* after it and the operations performed.
process_message(self, message, env) ==
    LET parsed == JsonRpcRequest_from_str(message)
    IN  IF ~parsed.ok
        THEN [out |-> JsonRpcResponse("2.0", None, None, JsonRpcError_parse_error),
              self |-> self, ops |-> <<>>]
        ELSE IF parsed.v.jsonrpc # "2.0"
        THEN [out |-> JsonRpcResponse("2.0", parsed.v.id, None, JsonRpcError_invalid_request),
              self |-> self, ops |-> <<>>]
        ELSE LET h == handle_request(self, parsed.v, env)
             IN  IF h.ret.ok
                 THEN [out |-> h.ret.v, self |-> h.self, ops |-> h.ops]
                 ELSE [out |-> JsonRpcResponse("2.0", None, None, JsonRpcError_internal_error),
                       self |-> h.self, ops |-> h.ops]

\* -------------------------------------------------------------- input lines

\* The line holding a JSON object with these envelope members; a None id or
\* params leaves the member out.
Envelope(jsonrpc, id, method, params) ==
    [kind |-> "json",
     v |-> JObj(("jsonrpc" :> JStr(jsonrpc)) @@ ("method" :> JStr(method))
                @@ (IF id = None THEN EmptyObj ELSE ("id" :> id))
                @@ (IF params = None THEN EmptyObj ELSE ("params" :> params)))]

InitParams ==
    JObj([protocolVersion |-> JStr("2024-01-01"), capabilities |-> JObj(EmptyObj),
          clientInfo |-> JObj([name |-> JStr("c"), version |-> JStr("1")])])
BadInitParams ==
    JObj([protocolVersion |-> JStr("2024-01-01"), capabilities |-> JObj(EmptyObj),
          clientInfo |-> JObj([name |-> JStr("c")])])
CallParams(name, arguments) == JObj([name |-> JStr(name), arguments |-> arguments])
\* The line l with white space added between its JSON tokens until it is bytes
\* long; a line without the bytes field is a short one, far below any limit.
Padded(l, bytes) == [kind |-> l.kind, v |-> l.v, bytes |-> bytes]

Lines ==
    { Envelope("2.0", JNum(1), "initialize", InitParams),
      Envelope("2.0", None, "initialize", InitParams),
      Envelope("2.0", JNum(2), "initialize", None),
      Envelope("2.0", JNum(1), "initialize", BadInitParams),
      Envelope("2.0", None, "initialized", None),
      Envelope("2.0", JNum(1), "tools/list", None),
      Envelope("2.0", JStr("a"), "tools/call", CallParams("echo", JObj([text |-> JStr("hi")]))),
      Envelope("2.0", JNum(1), "tools/call", None),
      Envelope("2.0", JNum(1), "tools/call", CallParams("nope", JObj(EmptyObj))),
      Envelope("2.0", JNum(1), "tools/call", CallParams("read_file", JObj(EmptyObj))),
      Envelope("2.0", JNum(2), "tools/call", CallParams("execute_command", JObj(EmptyObj))),
      Envelope("2.0", JNum(1), "tools/call",
               CallParams("execute_command", JObj([command |-> JStr("rm")]))),
      Envelope("2.0", JNum(1), "tools/call",
               CallParams("execute_command", JObj([command |-> JStr("echo")]))),
      Envelope("2.0", JNum(1), "resources/list", None),
      Envelope("2.0", JNum(1), "prompts/list", None),
      Envelope("2.0", JNum(2), "ping", None),
      Envelope("2.0", JNum(1), "nope", None),
      Envelope("1.0", JNum(1), "initialize", InitParams),
      Padded(Envelope("2.0", JNum(2), "initialize", InitParams), 16 * 1024 * 1024 + 1),
      [kind |-> "newline"],
      [kind |-> "spaces"],
      [kind |-> "garbage"],
      [kind |-> "json", v |-> JNum(7)],
      [kind |-> "json", v |-> JObj([jsonrpc |-> JStr("2.0"), id |-> JNum(1)])] }

\* main's command line: --name and --version (their defaults)
Names == {"rust-mcp-server"}
Versions == {"0.1.0"}

\* ------------------------------------------------------- main.rs, run()

\* The state when run() enters its loop: main has built the McpServer from the
\* command line and StdioServer::new has cloned it behind the mutex.
Init ==
    /\ \E name \in Names, version \in Versions :
           server = StdioServer_new(McpServer_new(name, version))
    /\ pc = "read"
    /\ line = [kind |-> "empty"]
    /\ response = None
    /\ stdin_log = <<>>
    /\ stdout = <<>>
    /\ trace = <<>>
    /\ run_result = None
    /\ exit_code = None

\* read_line returns Ok(n), n > 0, and the trimmed line is empty: continue.
ReadBlankLine ==
    /\ pc = "read"
    /\ Len(stdin_log) < MaxLines
    /\ \E l \in Lines :
           /\ trimmed_is_empty(l)
           /\ line' = l
           /\ stdin_log' = Append(stdin_log, l)
    /\ UNCHANGED <<server, pc, response, stdout, trace, run_result, exit_code>>

\* read_line returns Ok(n), n > 0, with a non-empty trimmed line, which
\* process_message handles under the server's mutex; a Some response goes on to
\* be written, a None goes back to reading.
ReadMessage ==
    /\ pc = "read"
    /\ Len(stdin_log) < MaxLines
    /\ \E l \in Lines, env \in Env :
           /\ ~trimmed_is_empty(l)
           /\ line' = l
           /\ stdin_log' = Append(stdin_log, l)
           /\ LET p == process_message(server, l, env)
              IN  /\ server' = p.self
                  /\ response' = p.out
                  /\ trace' = trace \o [i \in DOMAIN p.ops |->
                                           [line |-> Len(stdin_log) + 1, op |-> p.ops[i]]]
                  /\ pc' = IF p.out = None THEN "read" ELSE "write"
    /\ UNCHANGED <<stdout, run_result, exit_code>>

\* The response left in a buffer, neither written through nor flushed, when the
\* loop goes back to reading
WriteResponse_unflushed ==
    /\ pc = "write"
    /\ pc' = "read"
    /\ UNCHANGED <<server, line, response, stdin_log, stdout, trace, run_result, exit_code>>

\* The response serialized, written with its newline and flushed.
WriteResponse ==
    /\ pc = "write"
    /\ stdout' = Append(stdout, [line |-> Len(stdin_log), response |-> response])
    /\ response' = None
    /\ pc' = "read"
    /\ UNCHANGED <<server, line, stdin_log, trace, run_result, exit_code>>

\* main after run() has returned r: an Err is only logged, and main returns
\* Ok(()), so the process exits with code 0.
main_exit_code(r) == JNum(0)

\* read_line returns Ok(0): the loop breaks, run() returns Ok(()), main returns.
ReadEof ==
    /\ pc = "read"
    /\ line' = [kind |-> "empty"]
    /\ pc' = "exited"
    /\ run_result' = Ok("()")
    /\ exit_code' = main_exit_code(run_result')
    /\ UNCHANGED <<server, response, stdin_log, stdout, trace>>

\* read_line returns Err: logged, and the loop goes on to the next read_line
ReadError_continues ==
    /\ pc = "read"
    /\ line' = [kind |-> "empty"]
    /\ UNCHANGED <<server, pc, response, stdin_log, stdout, trace, run_result, exit_code>>

\* read_line returns Err: logged, the loop breaks, run() returns Ok(()), main
\* returns.
ReadError ==
    /\ pc = "read"
    /\ line' = [kind |-> "empty"]
    /\ pc' = "exited"
    /\ run_result' = Ok("()")
    /\ exit_code' = main_exit_code(run_result')
    /\ UNCHANGED <<server, response, stdin_log, stdout, trace>>

\* write_all or flush fails: `?` returns the error from run(), main returns.
WriteError ==
    /\ pc = "write"
    /\ pc' = "exited"
    /\ run_result' = Err("io error")
    /\ exit_code' = main_exit_code(run_result')
    /\ UNCHANGED <<server, line, response, stdin_log, stdout, trace>>

Next ==
    \/ ReadBlankLine
    \/ ReadMessage
    \/ WriteResponse
    \/ ReadEof
    \/ ReadError
    \/ WriteError

Spec == Init /\ [][Next]_vars

\* ------------------------------------------------- the registry on its own

\* The names and handlers a caller of the public register_tool passes
RegisteredNames == {"echo", "read_file", "custom"}
Handlers == {"EchoTool", "SystemInfoTool", "ListFilesTool", "ReadFileTool"}

\* registry.register_tool(name, handler) on the registry ToolRegistry::new built,
\* before any line is read; the call is logged in the trace under line 0.
RegisterTool ==
    /\ pc = "read"
    /\ stdin_log = <<>>
    /\ Len(trace) < MaxRegistrations
    /\ \E name \in RegisteredNames, handler \in Handlers :
           /\ server' = [server EXCEPT
                            !.tool_registry = register_tool(@, name, handler)]
           /\ trace' = Append(trace, [line |-> 0, op |-> Op("register_tool", name)])
    /\ UNCHANGED <<pc, line, response, stdin_log, stdout, run_result, exit_code>>

NextRegistry == RegisterTool

SpecRegistry == Init /\ [][NextRegistry]_vars

\* -------------------------------------------------- the engine on its own

\* The engine driven as the integration tests drive it: requests are handed to
\* McpServer::handle_request directly and the response is its return value.
Commands ==
    Range(allowed_commands) \cup {"rm", "sh", "ECHO", "/bin/echo", "echo; rm", ""}
Texts == {"", "hi", " hi ", "Echo: ", "No text provided"}
Requests ==
    {Envelope("2.0", JNum(1), "initialize", InitParams)}
    \cup {Envelope("2.0", JNum(1), "tools/call",
                   CallParams("execute_command", JObj([command |-> JStr(c)]))) : c \in Commands}
    \cup {Envelope("2.0", JNum(1), "tools/call",
                   CallParams("echo", JObj([text |-> JStr(t)]))) : t \in Texts}
    \cup {Envelope("2.0", JNum(1), "tools/call", CallParams("echo", JObj(EmptyObj))),
          Envelope("2.0", JNum(1), "tools/call", CallParams("echo", JObj([text |-> JNum(7)])))}

\* server.handle_request(request).await on a request built by the caller; the
\* request is logged as the line that would carry it.
HandleRequest ==
    /\ Len(stdin_log) < MaxCalls
    /\ \E l \in Requests, env \in Env :
           LET h == handle_request(server, JsonRpcRequest_from_str(l).v, env)
           IN  /\ line' = l
               /\ stdin_log' = Append(stdin_log, l)
               /\ server' = h.self
               /\ response' = h.ret.v
               /\ trace' = trace \o [i \in DOMAIN h.ops |->
                                        [line |-> Len(stdin_log) + 1, op |-> h.ops[i]]]
    /\ UNCHANGED <<pc, stdout, run_result, exit_code>>

NextEngine == HandleRequest

SpecEngine == Init /\ [][NextEngine]_vars

\* ------------------------------------------------------------------- claims

\* What each input line decodes to
Decoded == [l \in Lines |-> JsonRpcRequest_from_str(l)]
\* The envelope a line decodes to, for the lines that decode
IsEnvelope(l) == ~trimmed_is_empty(l) /\ Decoded[l].ok
Request(l) == Decoded[l].v
\* A decoded envelope with jsonrpc "2.0": one the engine is handed
IsValid(l) == IsEnvelope(l) /\ Request(l).jsonrpc = "2.0"
HasId(l) == IsEnvelope(l) /\ Request(l).id # None
IsNotification(l) == IsValid(l) /\ Request(l).id = None
IsCall(l, method) == IsValid(l) /\ Request(l).method = method

\* The positions in stdout of the responses written for the i-th line read
Answers(i) == {k \in DOMAIN stdout : stdout[k].line = i}
\* The i-th line's iteration of the loop is over and its write, if any, succeeded
Completed(i) ==
    \/ i < Len(stdin_log)
    \/ pc = "read"
    \/ pc = "exited" /\ run_result.ok
\* The step reads a non-blank line and hands it to process_message
ReadsMessage == pc = "read" /\ Len(stdin_log') = Len(stdin_log) + 1 /\ ~trimmed_is_empty(line')

\* C1: every request envelope that carries an id gets exactly one response, and
\* that response carries the same id: never more than one response per line, the
\* pending one and the written ones carry the line's id, and once the line's
\* iteration is over (its write to stdout not having failed) there is exactly one.
C1_OneResponsePerRequest ==
    /\ \A i \in DOMAIN stdin_log :
           HasId(stdin_log[i]) =>
               /\ Cardinality(Answers(i)) <= 1
               /\ Completed(i) => Cardinality(Answers(i)) = 1
               /\ \A k \in Answers(i) : stdout[k].response.id = Request(stdin_log[i]).id
    /\ (pc = "write" /\ HasId(line)) => response.id = Request(line).id

\* C1 witness: two requests with different ids, one answered with a result and
\* one whose handler failed, each answered once with its own id.
C1_Witness ==
    \E i, j \in DOMAIN stdin_log :
        /\ HasId(stdin_log[i]) /\ HasId(stdin_log[j])
        /\ Request(stdin_log[i]).id = JStr("a") /\ Request(stdin_log[j]).id = JNum(2)
        /\ \E k \in Answers(i) : stdout[k].response.id = JStr("a") /\ stdout[k].response.error # None
        /\ \E k \in Answers(j) : stdout[k].response.id = JNum(2) /\ stdout[k].response.result # None

\* C2: a notification (a well-formed envelope with no id) never causes a
\* response to be written, whatever its method and the lifecycle state.
C2_NotificationNoResponse ==
    \A i \in DOMAIN stdin_log : IsNotification(stdin_log[i]) => Answers(i) = {}

\* C3: while initialized is false, a tools/list or tools/call request is answered
\* with an error response with code -32603 and the request's id, and the registry
\* is neither enumerated nor invoked (the step adds no operation to the trace).
C3_ToolsBeforeInitialize ==
    [][(/\ ReadsMessage
        /\ ~server.initialized
        /\ IsCall(line', "tools/list") \/ IsCall(line', "tools/call"))
       => (/\ pc' = "write"
           /\ response' = JsonRpcResponse("2.0", Request(line').id, None,
                                          JsonRpcError(INTERNAL_ERROR))
           /\ trace' = trace)]_vars

\* C3 witness: a tools/call read before any initialize, its error response with
\* the request's id waiting to be written and no registry operation performed.
C3_Witness ==
    /\ pc = "write"
    /\ ~server.initialized
    /\ IsCall(line, "tools/call") /\ Request(line).id = JStr("a")
    /\ response.error = JsonRpcError(INTERNAL_ERROR) /\ response.id = JStr("a")
    /\ trace = <<>>

\* C4: while initialized is false, any request whose method is neither
\* initialize nor ping is answered with an error response, never with a result.
C4_OtherMethodsBeforeInitialize ==
    [][(/\ ReadsMessage
        /\ ~server.initialized
        /\ IsValid(line') /\ HasId(line')
        /\ Request(line').method \notin {"initialize", "ping"})
       => (/\ pc' = "write"
           /\ response'.error # None
           /\ response'.result = None)]_vars

\* C5: in every lifecycle state a ping request is answered with the result
\* {pong: true}, and an initialize request with well-formed params is answered
\* with a result and no error and leaves initialized true.
C5_PingAndInitializeAlways ==
    [][/\ (ReadsMessage /\ IsCall(line', "ping"))
          => (/\ pc' = "write"
              /\ response' = JsonRpcResponse("2.0", Request(line').id,
                                             JObj([pong |-> JBool(TRUE)]), None))
       /\ (ReadsMessage /\ IsCall(line', "initialize") /\ Request(line').params = InitParams)
          => (/\ pc' = "write"
              /\ response'.id = Request(line').id
              /\ response'.result # None
              /\ response'.error = None
              /\ server'.initialized)]_vars

\* C5 witness: a ping answered with pong before any initialize, then an
\* initialize, then a second initialize whose success response is pending.
C5_Witness ==
    /\ Len(stdin_log) = 3 /\ Len(stdout) = 2
    /\ IsCall(stdin_log[1], "ping")
    /\ stdout[1].response.result = JObj([pong |-> JBool(TRUE)])
    /\ IsCall(stdin_log[2], "initialize") /\ stdout[2].response.result # None
    /\ IsCall(stdin_log[3], "initialize") /\ Request(stdin_log[3]).params = InitParams
    /\ pc = "write" /\ response.result # None /\ response.error = None
    /\ server.initialized

\* C6: initialized starts false and is monotonic: once true, no step makes it
\* false again.
C6_InitializedMonotonic ==
    /\ server.initialized = FALSE
    /\ [][server.initialized => server'.initialized]_vars

\* C6 witness: the flag true after an initialize, and still true after a later
\* initialize that failed for want of params.
C6_Witness ==
    /\ server.initialized
    /\ Len(stdin_log) = 3
    /\ IsCall(stdin_log[1], "initialize") /\ Request(stdin_log[1]).params = InitParams
    /\ IsCall(stdin_log[2], "initialize") /\ Request(stdin_log[2]).params = None
    /\ Len(stdout) >= 2 /\ stdout[2].response.error # None

\* Exactly one of result and error is set
ExactlyOne(r) == (r.result = None) # (r.error = None)

\* C7: every response, written or about to be written, has exactly one of result
\* and error set.
C7_ResultXorError ==
    /\ \A k \in DOMAIN stdout : ExactlyOne(stdout[k].response)
    /\ pc = "write" => ExactlyOne(response)

\* C7 witness: three responses written on three paths: a parse error, a failed
\* handler and a success.
C7_Witness ==
    /\ Len(stdout) = 3
    /\ \E k \in DOMAIN stdout : stdout[k].response.error = JsonRpcError(PARSE_ERROR)
    /\ \E k \in DOMAIN stdout : stdout[k].response.error = JsonRpcError(INTERNAL_ERROR)
    /\ \E k \in DOMAIN stdout : stdout[k].response.result # None

\* C8: every envelope the server emits has jsonrpc "2.0".
C8_JsonRpcVersion ==
    /\ \A k \in DOMAIN stdout : stdout[k].response.jsonrpc = "2.0"
    /\ pc = "write" => response.jsonrpc = "2.0"

\* C8 witness: the response to a request whose jsonrpc was "1.0" and a
\* parse-error response, both written.
C8_Witness ==
    /\ \E k \in DOMAIN stdout :
           /\ IsEnvelope(stdin_log[stdout[k].line])
           /\ Request(stdin_log[stdout[k].line]).jsonrpc = "1.0"
    /\ \E k \in DOMAIN stdout : stdout[k].response.error = JsonRpcError(PARSE_ERROR)

IsUnknownMethod(l) == IsValid(l) /\ Request(l).method \notin Methods

\* C9: a request whose method is not one of the seven implemented ones is
\* answered with the error -32601, the request's id and no result, initialized or
\* not.
C9_MethodNotFound ==
    /\ \A k \in DOMAIN stdout :
           IsUnknownMethod(stdin_log[stdout[k].line]) =>
               stdout[k].response =
                   JsonRpcResponse("2.0", Request(stdin_log[stdout[k].line]).id, None,
                                   JsonRpcError(METHOD_NOT_FOUND))
    /\ \A i \in DOMAIN stdin_log :
           (IsUnknownMethod(stdin_log[i]) /\ HasId(stdin_log[i]) /\ Completed(i))
               => Answers(i) # {}

\* C9 witness: an unknown method answered -32601 before the initialize and
\* again after it.
C9_Witness ==
    /\ Len(stdin_log) = 3 /\ Len(stdout) = 3
    /\ IsUnknownMethod(stdin_log[1]) /\ HasId(stdin_log[1])
    /\ stdout[1].response.error = JsonRpcError(METHOD_NOT_FOUND)
    /\ IsCall(stdin_log[2], "initialize") /\ stdout[2].response.result # None
    /\ IsUnknownMethod(stdin_log[3]) /\ HasId(stdin_log[3])
    /\ stdout[3].response.error = JsonRpcError(METHOD_NOT_FOUND)
    /\ server.initialized

\* C10: an initialize request, or a tools/call request once initialized, that
\* arrives without params or with params of the wrong shape is answered with the
\* error -32602.
C10_InvalidParams ==
    [][(/\ ReadsMessage
        /\ HasId(line')
        /\ \/ /\ IsCall(line', "initialize")
              /\ \/ Request(line').params = None
                 \/ ~InitializeRequest_from_value(Request(line').params).ok
           \/ /\ server.initialized
              /\ IsCall(line', "tools/call")
              /\ \/ Request(line').params = None
                 \/ ~CallToolRequest_from_value(Request(line').params).ok)
       => (/\ pc' = "write"
           /\ response'.error # None
           /\ response'.error.code = INVALID_PARAMS)]_vars

\* A non-blank line that does not decode as a request envelope
Undecodable(l) == l.kind \notin {"empty", "newline", "spaces"} /\ ~Decoded[l].ok
\* The response process_message builds for a line that does not decode
ParseErrorResponse == JsonRpcResponse("2.0", None, None, JsonRpcError(PARSE_ERROR))

\* C11: a non-empty line that does not decode as a request envelope is answered
\* with exactly one response, whose id is null and whose error code is -32700;
\* the engine is not invoked for it (the server is unchanged and no operation is
\* traced), and once the response is written the loop is back at reading.
C11_ParseError ==
    [][/\ (pc = "read" /\ Len(stdin_log') = Len(stdin_log) + 1 /\ Undecodable(line'))
           => (/\ pc' = "write"
               /\ response' = ParseErrorResponse
               /\ server' = server
               /\ trace' = trace)
       /\ (pc = "write" /\ Undecodable(line) /\ stdout' # stdout)
           => (/\ stdout' = Append(stdout, [line |-> Len(stdin_log),
                                            response |-> ParseErrorResponse])
               /\ pc' = "read")
       /\ \A i \in DOMAIN stdin_log' :
              Undecodable(stdin_log'[i]) =>
                  LET n == Cardinality({k \in DOMAIN stdout' : stdout'[k].line = i})
                  IN  /\ n <= 1
                      /\ (i < Len(stdin_log') \/ pc' = "read") => n = 1]_vars

\* C11 witness: a line of garbage was answered with the parse error and a null
\* id, and the next line, a request, was read and answered after it.
C11_Witness ==
    /\ Len(stdin_log) >= 2 /\ Len(stdout) >= 2
    /\ stdin_log[1].kind = "garbage"
    /\ stdout[1] = [line |-> 1, response |-> ParseErrorResponse]
    /\ HasId(stdin_log[2]) /\ stdout[2].line = 2
    /\ stdout[2].response.id = Request(stdin_log[2]).id

\* A line that decodes as an envelope whose jsonrpc member is not "2.0"
WrongVersion(l) == IsEnvelope(l) /\ Request(l).jsonrpc # "2.0"

\* C12: an envelope whose jsonrpc member is not "2.0" is answered with the error
\* -32600 carrying the envelope's id, and its method is not dispatched: the
\* server, its initialized flag included, is unchanged and no operation is traced.
C12_InvalidRequest ==
    [][(pc = "read" /\ Len(stdin_log') = Len(stdin_log) + 1 /\ WrongVersion(line'))
       => (/\ pc' = "write"
           /\ response' = JsonRpcResponse("2.0", Request(line').id, None,
                                          JsonRpcError(INVALID_REQUEST))
           /\ server'.initialized = server.initialized
           /\ server' = server
           /\ trace' = trace)]_vars

\* C12 witness: an initialize request with jsonrpc "1.0" and id 1 is the first
\* line; it is answered with -32600 and id 1, and the server is not initialized.
C12_Witness ==
    /\ Len(stdin_log) = 1 /\ Len(stdout) = 1
    /\ WrongVersion(stdin_log[1])
    /\ Request(stdin_log[1]).method = "initialize"
    /\ Request(stdin_log[1]).params # None
    /\ stdout[1].response = JsonRpcResponse("2.0", JNum(1), None, JsonRpcError(INVALID_REQUEST))
    /\ ~server.initialized

\* A tools/call request whose params decode as a CallToolRequest, and the tool
\* name it carries
CallsTool(l) ==
    /\ IsCall(l, "tools/call")
    /\ Request(l).params # None
    /\ CallToolRequest_from_value(Request(l).params).ok
ToolName(l) == CallToolRequest_from_value(Request(l).params).v.name

\* C13: once initialized, a tools/call request naming a tool that is not
\* registered is answered with a success envelope (result present, no error)
\* carrying the request's id, whose result has isError true and a text part that
\* names the requested tool.
C13_UnknownTool ==
    [][(/\ pc = "read" /\ Len(stdin_log') = Len(stdin_log) + 1
        /\ server.initialized
        /\ CallsTool(line')
        /\ ToolName(line') \notin DOMAIN server.tool_registry)
       => (/\ pc' = "write"
           /\ response'.id = Request(line').id
           /\ response'.error = None
           /\ response'.result # None
           /\ response'.result.t = "obj"
           /\ "isError" \in DOMAIN response'.result.o
           /\ response'.result.o.isError = JBool(TRUE)
           /\ \E k \in DOMAIN response'.result.o.content.a :
                  LET part == response'.result.o.content.a[k]
                  IN  /\ part.type = "text"
                      /\ ToolName(line') \in Range(part.text))]_vars

\* C13 witness: after a successful initialize, a call of the tool "nope" with
\* id 1 was answered with a result whose isError is true.
C13_Witness ==
    /\ Len(stdin_log) = 2 /\ Len(stdout) = 2
    /\ server.initialized
    /\ CallsTool(stdin_log[2])
    /\ ToolName(stdin_log[2]) = "nope"
    /\ "nope" \notin DOMAIN server.tool_registry
    /\ stdout[2].response.error = None
    /\ stdout[2].response.result.o.isError = JBool(TRUE)

\* A tools/call request for a registered tool whose handler returns Err:
\* read_file without a string path, execute_command without a string command
HandlerFails(l) ==
    /\ CallsTool(l)
    /\ LET request == CallToolRequest_from_value(Request(l).params).v
       IN  \/ request.name = "read_file" /\ AsStr(Get(request.arguments, "path")) = None
           \/ request.name = "execute_command"
              /\ AsStr(Get(request.arguments, "command")) = None

\* C14: once initialized, a tools/call whose registered handler fails is answered
\* with the error -32603 carrying the request's id; the failure stays inside the
\* engine: the server is unchanged and run() has not returned, and once the
\* response is written the loop is back at reading the next line.
C14_HandlerFailure ==
    [][/\ (/\ pc = "read" /\ Len(stdin_log') = Len(stdin_log) + 1
           /\ server.initialized
           /\ HandlerFails(line'))
          => (/\ pc' = "write"
              /\ response' = JsonRpcResponse("2.0", Request(line').id, None,
                                             JsonRpcError(INTERNAL_ERROR))
              /\ server' = server
              /\ run_result' = None)
       /\ (pc = "write" /\ HandlerFails(line) /\ stdout' # stdout) => pc' = "read"]_vars

\* C14 witness: after initialize, read_file without a path was answered with
\* -32603 and its id 1, and the ping that followed was answered with its result.
C14_Witness ==
    /\ Len(stdin_log) = 3 /\ Len(stdout) = 3
    /\ IsCall(stdin_log[1], "initialize") /\ stdout[1].response.result # None
    /\ HandlerFails(stdin_log[2]) /\ ToolName(stdin_log[2]) = "read_file"
    /\ stdout[2].response = JsonRpcResponse("2.0", JNum(1), None, JsonRpcError(INTERNAL_ERROR))
    /\ IsCall(stdin_log[3], "ping")
    /\ stdout[3].response = JsonRpcResponse("2.0", JNum(2), JObj([pong |-> JBool(TRUE)]), None)

\* C14 witness for the other failing handler: execute_command without a command
C14_WitnessCommand ==
    /\ Len(stdin_log) = 2 /\ Len(stdout) = 2
    /\ server.initialized
    /\ HandlerFails(stdin_log[2]) /\ ToolName(stdin_log[2]) = "execute_command"
    /\ stdout[2].response = JsonRpcResponse("2.0", JNum(2), None, JsonRpcError(INTERNAL_ERROR))

\* C15: responses are written in the order their request lines were read, and a
\* line's response is written and flushed before the next line is read: stdout
\* only grows at its end, by the response of the line read last; no line is read
\* while a response is pending; the lines answered appear in stdout in strictly
\* increasing order of reading.
C15_ResponsesInReadOrder ==
    [][/\ stdout' # stdout
          => /\ stdout' = Append(stdout, [line |-> Len(stdin_log), response |-> response])
             /\ response # None
             /\ stdin_log' = stdin_log
       /\ stdin_log' # stdin_log
          => /\ response = None
             /\ stdout' = stdout
             /\ \A k \in DOMAIN stdout : stdout[k].line <= Len(stdin_log)
       /\ \A k \in DOMAIN stdout' :
              k > 1 => stdout'[k - 1].line < stdout'[k].line]_vars

\* C15 witness: three requests were read and answered; the three responses are
\* in stdout in the order of the lines and carry the ids "a", 2 and 1 in that order.
C15_Witness ==
    /\ Len(stdin_log) = 3 /\ Len(stdout) = 3
    /\ \A k \in 1..3 : stdout[k].line = k /\ HasId(stdin_log[k])
                       /\ stdout[k].response.id = Request(stdin_log[k]).id
    /\ stdout[1].response.id = JStr("a")
    /\ stdout[2].response.id = JNum(2)
    /\ stdout[3].response.id = JNum(1)

\* C16: registering a tool under a name that is already registered is rejected:
\* the registry is left as it was, the handler stored under the name is not
\* replaced, and the registry lists exactly one descriptor per name.
C16_DuplicateRejected ==
    [][(/\ Len(trace') = Len(trace) + 1
        /\ trace'[Len(trace')].op.op = "register_tool"
        /\ trace'[Len(trace')].op.arg \in DOMAIN server.tool_registry)
       => (/\ server'.tool_registry = server.tool_registry
           /\ \A n \in DOMAIN server'.tool_registry :
                  Cardinality({d \in list_tools(server'.tool_registry) : d.name = n}) = 1)]_vars

\* The five built-in tool names
BuiltinTools == {"echo", "get_system_info", "list_files", "read_file", "execute_command"}
\* The descriptors in the result of a tools/list response
Listed(r) == r.result.o.tools.a
\* The i-th line read is a tools/list request and stdout[k] answers it with a result
IsListing(k) ==
    /\ IsCall(stdin_log[stdout[k].line], "tools/list")
    /\ stdout[k].response.result # None

\* C17: once initialized, every tools/list request is answered with a result
\* that lists exactly the five built-in tool names, each once, and that is equal
\* to the result of every tools/list answered before it, whatever was handled in
\* between; listing leaves the registry as it was.
C17_ListToolsStable ==
    [][(/\ pc = "read" /\ Len(stdin_log') = Len(stdin_log) + 1
        /\ server.initialized
        /\ IsCall(line', "tools/list"))
       => (/\ pc' = "write"
           /\ response'.error = None
           /\ response'.result # None
           /\ {d.name : d \in Listed(response')} = BuiltinTools
           /\ \A n \in BuiltinTools :
                  Cardinality({d \in Listed(response') : d.name = n}) = 1
           /\ \A k \in DOMAIN stdout :
                  IsListing(k) => stdout[k].response.result = response'.result
           /\ server'.tool_registry = server.tool_registry)]_vars

\* C17 witness: initialize, then a tools/call of echo, then tools/list, answered
\* with the five names.
C17_Witness ==
    /\ Len(stdin_log) = 3 /\ Len(stdout) = 3
    /\ IsCall(stdin_log[1], "initialize")
    /\ CallsTool(stdin_log[2]) /\ ToolName(stdin_log[2]) = "echo"
    /\ stdout[2].response.result # None
    /\ IsListing(3)
    /\ {d.name : d \in Listed(stdout[3].response)} = BuiltinTools

\* C17 witness for the repetition: two tools/list requests in a row, answered alike
C17_WitnessRepeated ==
    /\ Len(stdin_log) = 3 /\ Len(stdout) = 3
    /\ IsListing(2) /\ IsListing(3)
    /\ stdout[2].response.result = stdout[3].response.result
    /\ Cardinality(Listed(stdout[3].response)) = 5

\* An initialize request whose params decode as an InitializeRequest
InitializesWell(l) ==
    /\ IsCall(l, "initialize")
    /\ Request(l).params # None
    /\ InitializeRequest_from_value(Request(l).params).ok

\* C18: a successful initialize is answered with a result whose protocolVersion
\* is "2024-11-05" whatever version the client asked for, whose serverInfo holds
\* the name and version the server was constructed with, and whose
\* capabilities.tools.listChanged is false.
C18_InitializeResult ==
    [][(/\ pc = "read" /\ Len(stdin_log') = Len(stdin_log) + 1
        /\ InitializesWell(line'))
       => (/\ pc' = "write"
           /\ response'.error = None
           /\ response'.result # None
           /\ response'.result.o.protocolVersion = JStr("2024-11-05")
           /\ \E name \in Names, version \in Versions :
                  /\ server = [StdioServer_new(McpServer_new(name, version))
                                  EXCEPT !.initialized = server.initialized]
                  /\ response'.result.o.serverInfo
                         = JObj([name |-> JStr(name), version |-> JStr(version)])
           /\ response'.result.o.capabilities.o.tools.o.listChanged = JBool(FALSE))]_vars

\* C18 witness: an initialize request asking for protocol version "2024-01-01"
\* from a client named "c" was answered with "2024-11-05" and the server's own name.
C18_Witness ==
    /\ Len(stdin_log) = 1 /\ Len(stdout) = 1
    /\ InitializesWell(stdin_log[1])
    /\ InitializeRequest_from_value(Request(stdin_log[1]).params).v.protocol_version
           = "2024-01-01"
    /\ stdout[1].response.result.o.protocolVersion = JStr("2024-11-05")
    /\ stdout[1].response.result.o.serverInfo.o.name = JStr("rust-mcp-server")
    /\ stdout[1].response.result.o.serverInfo.o.version = JStr("0.1.0")

\* A line that is empty or holds white space only
IsBlank(l) == l.kind \in {"newline", "spaces"}

\* C19: a line that is empty or white space only is skipped: reading it writes
\* nothing and leaves nothing to write, the engine is not invoked (the server,
\* its initialized flag included, is unchanged and no operation is traced), the
\* loop stays at reading, and no response is ever written for such a line.
C19_BlankLineSkipped ==
    [][/\ (pc = "read" /\ Len(stdin_log') = Len(stdin_log) + 1 /\ IsBlank(line'))
          => (/\ pc' = "read"
              /\ response' = None
              /\ stdout' = stdout
              /\ trace' = trace
              /\ server' = server
              /\ run_result' = None)
       /\ \A i \in DOMAIN stdin_log' :
              IsBlank(stdin_log'[i]) => \A k \in DOMAIN stdout' : stdout'[k].line # i]_vars

\* C19 witness: after initialize, a line of spaces was read and nothing written
\* for it, and the tools/list request after it was answered with a result.
C19_Witness ==
    /\ Len(stdin_log) = 3 /\ Len(stdout) = 2
    /\ IsCall(stdin_log[1], "initialize") /\ stdout[1].response.result # None
    /\ stdin_log[2].kind = "spaces" /\ Answers(2) = {}
    /\ IsCall(stdin_log[3], "tools/list")
    /\ stdout[2].line = 3 /\ stdout[2].response.result # None

\* A line the loop owes a response: a request that carries an id, a line that
\* does not decode, or an envelope with a wrong version
ResponseDue(l) == HasId(l) \/ Undecodable(l) \/ WrongVersion(l)

\* C20: the loop ends when read_line reports end of input or fails. A step taken
\* at reading that reads no line ends run(): it writes nothing, handles nothing
\* and leaves nothing pending, and at that point every line read that is owed a
\* response has its response in stdout; once run() has returned there is no
\* further step, so no line is processed and no response written afterwards.
C20_LoopEndsAtEof ==
    [][/\ pc # "exited"
       /\ (pc = "read" /\ stdin_log' = stdin_log)
          => (/\ pc' = "exited"
              /\ run_result' # None
              /\ stdout' = stdout
              /\ server' = server
              /\ trace' = trace
              /\ response = None /\ response' = None
              /\ \A i \in DOMAIN stdin_log :
                     ResponseDue(stdin_log[i]) => Cardinality(Answers(i)) = 1)]_vars

\* C20 witness: run() has returned after end of input (or a read error) that
\* followed three requests, each with its response in stdout.
C20_Witness ==
    /\ pc = "exited" /\ run_result = Ok("()")
    /\ Len(stdin_log) = 3 /\ Len(stdout) = 3
    /\ \A i \in 1..3 : ResponseDue(stdin_log[i]) /\ Answers(i) = {i}
    /\ response = None

\* C21: the process exits with code 0 when the loop ended on end of input, and
\* with a code other than 0 when the loop ended on a failed write of a response.
C21_ExitCodes ==
    pc = "exited" =>
        /\ run_result.ok => exit_code = JNum(0)
        /\ ~run_result.ok => (exit_code # None /\ exit_code.n # 0)

\* The request a line carries, and the tool call in it: a tools/call of the
\* named tool whose arguments hold the string s under the key
RequestOf(l) == JsonRpcRequest_from_str(l).v
CallsToolWith(l, tool, key, s) ==
    /\ l.kind = "json"
    /\ JsonRpcRequest_from_str(l).ok
    /\ RequestOf(l).jsonrpc = "2.0"
    /\ RequestOf(l).method = "tools/call"
    /\ RequestOf(l).params # None
    /\ CallToolRequest_from_value(RequestOf(l).params).ok
    /\ LET call == CallToolRequest_from_value(RequestOf(l).params).v
       IN  /\ call.name = tool
           /\ call.arguments # None
           /\ Get(call.arguments, key) = JStr(s)
\* The step hands one more request to the engine
Handles == Len(stdin_log') = Len(stdin_log) + 1 /\ line' = stdin_log'[Len(stdin_log')]

AllowList == {"echo", "date", "whoami", "pwd", "ls", "cat", "head", "tail", "wc"}

\* C22: execute_command never starts a process for a command outside the
\* allow-list {echo, date, whoami, pwd, ls, cat, head, tail, wc}: every process
\* started is for a command of the list, and a call with any other command
\* string is answered with a success envelope whose result has isError true and
\* a text naming every allowed command, the step starting no process.
C22_AllowList ==
    [][/\ \A k \in DOMAIN trace' :
              trace'[k].op.op = "spawn" => trace'[k].op.arg \in AllowList
       /\ \A c \in Commands \ AllowList :
              (Handles /\ server.initialized /\ CallsToolWith(line', "execute_command", "command", c))
              => (/\ response'.error = None
                  /\ response'.result # None
                  /\ "isError" \in DOMAIN response'.result.o
                  /\ response'.result.o.isError = JBool(TRUE)
                  /\ Len(response'.result.o.content.a) = 1
                  /\ response'.result.o.content.a[1].type = "text"
                  /\ AllowList \subseteq Range(response'.result.o.content.a[1].text)
                  /\ trace' = Append(trace, [line |-> Len(stdin_log'),
                                             op |-> Op("call_tool", "execute_command")]))]_vars

\* C22 witness: after initialize, execute_command was called with "/bin/echo",
\* which is not on the list: the answer has isError true and no process started.
C22_Witness ==
    /\ Len(stdin_log) = 2
    /\ server.initialized
    /\ CallsToolWith(stdin_log[2], "execute_command", "command", "/bin/echo")
    /\ response.error = None
    /\ response.result.o.isError = JBool(TRUE)
    /\ \A k \in DOMAIN trace : trace[k].op.op # "spawn"

\* C22 witness for the allowed side: a process was started for "echo"
C22_WitnessAllowed ==
    /\ Len(stdin_log) = 2
    /\ CallsToolWith(stdin_log[2], "execute_command", "command", "echo")
    /\ \E k \in DOMAIN trace : trace[k].op = Op("spawn", "echo")

\* A line longer than the default maximum of 16 MiB
Oversized(l) == "bytes" \in DOMAIN l /\ l.bytes > 16 * 1024 * 1024

\* C23: a line longer than the maximum length (16 MiB by default) produces a
\* single parse-error response with id null and is not handed to the engine: the
\* server is unchanged and no operation is traced.
C23_OversizedLine ==
    [][(pc = "read" /\ Len(stdin_log') = Len(stdin_log) + 1 /\ Oversized(line'))
       => (/\ pc' = "write"
           /\ response' = ParseErrorResponse
           /\ server' = server
           /\ trace' = trace)]_vars

\* C24: once initialized, a tools/call of echo with arguments {text: t} is
\* answered with a success envelope carrying the request's id, whose first
\* content part is a text part containing t and whose isError is absent or
\* false, for every string t.
C24_Echo ==
    [][\A t \in Texts :
           (Handles /\ server.initialized /\ CallsToolWith(line', "echo", "text", t))
           => (/\ response'.id = RequestOf(line').id
               /\ response'.error = None
               /\ response'.result # None
               /\ Len(response'.result.o.content.a) >= 1
               /\ response'.result.o.content.a[1].type = "text"
               /\ t \in Range(response'.result.o.content.a[1].text)
               /\ \/ "isError" \notin DOMAIN response'.result.o
                  \/ response'.result.o.isError = JBool(FALSE))]_vars

\* C24 witness: after initialize, echo was called with the text " hi " and the
\* answer's first part is the text "Echo:  hi " with no isError.
C24_Witness ==
    /\ Len(stdin_log) = 2
    /\ server.initialized
    /\ CallsToolWith(stdin_log[2], "echo", "text", " hi ")
    /\ response.error = None
    /\ response.result.o.content.a[1] = Text(<<"Echo: ", " hi ">>)
    /\ "isError" \notin DOMAIN response.result.o

\* C25: the server changes only on a successful initialize, and then only in its
\* initialized flag, which becomes true: a failed initialize, every other method,
\* an unknown method, a line that does not decode and an envelope with a wrong
\* version leave the flag, the name, the version and the registry as they were.
C25_InitializedFrame ==
    [][/\ server'.name = server.name
       /\ server'.version = server.version
       /\ server'.tool_registry = server.tool_registry
       /\ server'.protocol_version = server.protocol_version
       /\ server'.initialized # server.initialized
          => (/\ pc = "read" /\ Len(stdin_log') = Len(stdin_log) + 1
              /\ InitializesWell(line')
              /\ server'.initialized)
       /\ (/\ pc = "read" /\ Len(stdin_log') = Len(stdin_log) + 1
           /\ ~InitializesWell(line'))
          => server' = server]_vars

\* C25 witness: an initialize without params, the initialized notification and
\* a tools/call were handled, and the server is still as constructed, its flag
\* false.
C25_Witness ==
    /\ Len(stdin_log) = 3
    /\ IsCall(stdin_log[1], "initialize") /\ Request(stdin_log[1]).params = None
    /\ IsCall(stdin_log[2], "initialized")
    /\ IsCall(stdin_log[3], "tools/call")
    /\ ~server.initialized
    /\ \E name \in Names, version \in Versions :
           server = StdioServer_new(McpServer_new(name, version))

\* C25 witness for the flag set: after a successful initialize, a tools/call of
\* echo and an unknown method were handled and only the flag differs from the
\* server as constructed.
C25_WitnessInitialized ==
    /\ Len(stdin_log) = 3
    /\ InitializesWell(stdin_log[1])
    /\ CallsTool(stdin_log[2]) /\ ToolName(stdin_log[2]) = "echo"
    /\ IsUnknownMethod(stdin_log[3])
    /\ \E name \in Names, version \in Versions :
           server = [StdioServer_new(McpServer_new(name, version)) EXCEPT !.initialized = TRUE]

====
